---- MODULE Spec2Model ----
(***************************************************************************)
(* The entity synchronisation engine of predictionwhales: TagsManager and  *)
(* EventsManager (src/test.md) writing the relational store, driven by the *)
(* responses of the remote catalog API.                                    *)
(*                                                                         *)
(* A table is a bag of rows (a function from rows to positive counts), so  *)
(* that a duplicate row is a state the model can be in.  The remote API is *)
(* a small catalog with two versions; every request may also fail.         *)
(*                                                                         *)
(* Spec           the daily scans of the Tags and Events managers          *)
(* SpecResume     the same scans against a catalog of three tags, with the *)
(*                database emptied and a phase stopped and run again       *)
(* SpecDependents the Markets and Series managers, which are not part of   *)
(*                src/test.md and follow the design document               *)
(* SpecReader     one Events scan storing a page row by row, and a reader  *)
(*                of the store running next to it                          *)
(* SpecPaging     the scans against a remote whose event list never ends   *)
(* SpecTradePage  the TradePage component of the React frontend            *)
(* SpecDashboard  the dashboard page of src/static/js/app.js               *)
(***************************************************************************)
EXTENDS Integers, Sequences, FiniteSets, Bags, TLC

VARIABLES
    tags,               \* table tags
    events,             \* table events
    event_tags,         \* table event_tags
    tag_relationships,  \* table tag_relationships
    event_live_volume,  \* table event_live_volume
    ver,                \* the version of the remote catalog now served
    config,             \* Config flags, and the page size the scans use
    pc,                 \* position of the (single-threaded) daily scans
    runs,               \* full syncs completed
    loc,                \* locals of the running manager method
    last,               \* the most recent remote request and how it ended
    delayed,            \* a rate-limit sleep has elapsed since that request
    seenPairs,          \* (event, tag) pairs handed to an event-tag store
    seenTags,           \* tag ids handed to a tag store
    clean,              \* no request failed and the catalog did not change
    snap,               \* the store at the end of the first clean full sync
    resume,             \* whether the database was emptied, a phase stopped
    markets,            \* table markets
    series,             \* table series
    series_events,      \* table series_events
    observed,           \* what a concurrent reader of the store last read
    trade,              \* the state of the TradePage component
    dashboard           \* the state of the dashboard page (app.js)

vars == <<tags, events, event_tags, tag_relationships, event_live_volume,
          ver, config, pc, runs, loc, last, delayed, seenPairs, seenTags,
          clean, snap, resume, markets, series, series_events, observed,
          trade, dashboard>>

store == <<tags, events, event_tags, tag_relationships, event_live_volume>>

\* the tables of the Markets and Series managers
dependents == <<markets, series, series_events>>

\* the two web frontends
frontend == <<trade, dashboard>>

----------------------------------------------------------------------------
(* Bounds and program constants *)

\* full syncs (Tags daily scan, then Events daily scan) the orchestrator runs
MaxRuns == 2

\* values of Config.MAX_EVENTS_PER_RUN
Caps == {1, 2}

\* page sizes of fetch_all_events (its parameter limit)
Limits == {1, 2}

Null == "NULL"
Val == "v"
NoSnap == "none"
\* the reader has read nothing yet
NoRead ==
    [event_id |-> Null, tag_ids |-> {}, during_write |-> FALSE, before |-> {},
     new |-> {}]

TagIds == {"T1", "T2"}
EventIds == {"E1", "E2"}
\* SELECT id FROM tags ORDER BY id
TagOrder == <<"T1", "T2", "T3">>
\* the catalog versions the remote moves between
Versions == {"v1", "v2"}
\* a catalog with more tags than one answer of the tags endpoint carries
LargeVersion == "v3"

\* a catalog whose events endpoint answers every request with a full page
EndlessVersion == "v4"

\* the largest offset a page is requested at
MaxOffset == 3

\* requests for the data of one tab in flight at once
MaxInflight == 1

\* the parameter limit of fetch_all_tags (its default, which daily_scan
\* never overrides), scaled to the catalogs of the model
TagsLimit == 2

----------------------------------------------------------------------------
(* The remote API: what each endpoint answers in each catalog version *)

TagDoc(t) == [id |-> t, label |-> Val, forceHide |-> Val, isCarousel |-> Val]

RelDoc(i, t, r, k) == [id |-> i, tagID |-> t, relatedTagID |-> r, rank |-> k]

\* every tag of the remote catalog, in the order the tags endpoint lists them
RemoteTagCatalog(v) ==
    CASE v = "v1" -> <<TagDoc("T1")>>
      [] v = "v2" -> <<TagDoc("T1"), TagDoc("T2")>>
      [] v = LargeVersion -> <<TagDoc("T1"), TagDoc("T2"), TagDoc("T3")>>
      [] v = EndlessVersion -> <<TagDoc("T1")>>

\* GET /tags?limit=...: at most limit tags of the catalog
RemoteTagList(v) ==
    SubSeq(RemoteTagCatalog(v), 1,
           IF Len(RemoteTagCatalog(v)) < TagsLimit THEN Len(RemoteTagCatalog(v))
           ELSE TagsLimit)

\* the tags nested in an event document
RemoteEventTags(v, e) ==
    IF v = "v1" THEN <<TagDoc("T1"), TagDoc("T2")>>
    ELSE IF e = "E1" THEN <<TagDoc("T1")>> ELSE <<>>

\* GET /events/{id}
RemoteEvent(v, e) ==
    [id |-> e, title |-> v, volume |-> Val, tags |-> RemoteEventTags(v, e)]

\* an event document of a list answer that leaves volume out
\* (event.get('volume') is then None)
RemoteEventStub(v, e) == [RemoteEvent(v, e) EXCEPT !.volume = Null]

\* GET /events?closed=...: the whole ordered list, before paging; the list
\* answers of the second catalog version are the sparser documents
RemoteEventList(v, closed) ==
    IF v \in {"v1", LargeVersion}
    THEN (IF closed THEN <<>> ELSE <<RemoteEvent(v, "E1"), RemoteEvent(v, "E2")>>)
    ELSE (IF closed THEN <<RemoteEventStub(v, "E2")>>
                    ELSE <<RemoteEventStub(v, "E1")>>)

\* GET /tags/{id}/related-tags
RemoteRelationships(v, t) ==
    CASE v = "v1" ->
            (IF t = "T1" THEN <<RelDoc("r1", "T1", "T2", 1)>>
                         ELSE <<RelDoc("r2", "T2", "T1", 1)>>)
      [] v = "v2" ->
            (IF t = "T1" THEN <<>> ELSE <<RelDoc("r3", "T2", "T1", 2)>>)
      [] v = LargeVersion ->
            (IF t = "T1" THEN <<RelDoc("r4", "T1", "T3", 1)>>
             ELSE IF t = "T3" THEN <<RelDoc("r5", "T3", "T2", 1)>>
             ELSE <<>>)
      [] v = EndlessVersion -> <<>>

\* GET /tags/{id}/related-tags/tags
RemoteRelatedTags(v, t) ==
    LET R == RemoteRelationships(v, t)
    IN  [i \in 1..Len(R) |-> TagDoc(R[i].relatedTagID)]

\* GET /live-volume?id=...
RemoteLiveVolume(v, e) ==
    IF e = "E1" THEN <<[total |-> "live"]>> ELSE <<>>

\* the markets nested in the detail document of an event
RemoteEventMarkets(v, e) ==
    IF e = "E1" THEN <<[id |-> "M1", question |-> v]>>
    ELSE IF v = "v1" THEN <<[id |-> "M2", question |-> v]>> ELSE <<>>

\* GET /series: each series with the ids of its nested events
RemoteSeriesList(v) ==
    IF v = "v1" THEN <<[id |-> "S1", title |-> v, events |-> <<"E1", "E2">>]>>
    ELSE <<[id |-> "S1", title |-> v, events |-> <<"E1">>]>>

\* how a request ends: answered, failed (requests.exceptions.RequestException:
\* a timeout / 5xx / throttling, or a 4xx), or answered with the store of
\* the answer raising (any other Exception)
Outcomes == {"ok", "transient", "client", "dberror"}
Failed(o) == o \in {"transient", "client"}

----------------------------------------------------------------------------
(* DatabaseManager: the write primitives the managers inherit *)

Rows(table) == BagToSet(table)

StoredIds(table) == {r.id : r \in Rows(table)}

\* primary keys
tags_key(r) == r.id
events_key(r) == r.id
event_tags_key(r) == <<r.event_id, r.tag_id>>
event_live_volume_key(r) == r.event_id

\* faulty variant: the remote id of the relationship as the key
tag_relationships_key_by_id(r) == r.id

\* PRIMARY KEY (tag_id, related_tag_id)
tag_relationships_key(r) == <<r.tag_id, r.related_tag_id>>

\* the primary key of a row of the named table
primary_key(name, r) ==
    CASE name = "tags" -> tags_key(r)
      [] name = "events" -> events_key(r)
      [] name = "event_tags" -> event_tags_key(r)
      [] name = "event_live_volume" -> event_live_volume_key(r)
      [] name = "tag_relationships" -> tag_relationships_key(r)
      [] name = "markets" -> r.id
      [] name = "series" -> r.id
      [] name = "series_events" -> r.series_id

\* INSERT OR REPLACE: rows with the record's primary key go, the record comes
insert_or_replace(table, name, record) ==
    LET kept == {x \in Rows(table) :
                    primary_key(name, x) # primary_key(name, record)}
    IN  [x \in kept |-> table[x]] (+) SetToBag({record})

\* INSERT OR IGNORE: the record comes unless its primary key is stored
insert_or_ignore(table, name, record) ==
    IF \E x \in Rows(table) : primary_key(name, x) = primary_key(name, record)
    THEN table
    ELSE table (+) SetToBag({record})

bulk_insert_or_replace(table, name, records) ==
    LET f[i \in 0..Len(records)] ==
            IF i = 0 THEN table
            ELSE insert_or_replace(f[i - 1], name, records[i])
    IN  f[Len(records)]

\* faulty variant: the parent's new rows are added, its old rows stay
replace_relation_set_keeps(table, parent_key, new_rows) ==
    table (+) SetToBag(new_rows \ Rows(table))

\* replace_relation_set: this parent's rows are now exactly new_rows
replace_relation_set(table, parent_key, new_rows) ==
    LET kept == {x \in Rows(table) : x.series_id # parent_key}
    IN  [x \in kept |-> table[x]] (+) SetToBag(new_rows)

\* UPDATE events SET volume = ? WHERE id = ?
update_record_volume(table, id, volume) ==
    LET hit == {x \in Rows(table) : x.id = id}
        new(x) == [x EXCEPT !.volume = volume]
    IN  [x \in (Rows(table) \ hit) \cup {new(y) : y \in hit} |->
            IF x \in Rows(table) \ hit THEN table[x] ELSE 1]

----------------------------------------------------------------------------
(* TagsManager: records and stores.  A timestamp column holds Val once set. *)

_prepare_tag_record(tag, detailed) ==
    [id |-> tag.id,
     label |-> tag.label,
     force_hide |-> IF detailed THEN tag.forceHide ELSE Null,
     is_carousel |-> IF detailed THEN tag.isCarousel ELSE Null,
     fetched_at |-> Val]

_store_tags(T, tagDocs, detailed) ==
    bulk_insert_or_replace(T, "tags",
        [i \in 1..Len(tagDocs) |-> _prepare_tag_record(tagDocs[i], detailed)])

_store_tag_detailed(T, tag) ==
    insert_or_replace(T, "tags", _prepare_tag_record(tag, TRUE))

_store_tag_relationships(TR, relationships) ==
    bulk_insert_or_replace(TR, "tag_relationships",
        [i \in 1..Len(relationships) |->
            [id |-> relationships[i].id,
             tag_id |-> relationships[i].tagID,
             related_tag_id |-> relationships[i].relatedTagID,
             rank |-> relationships[i].rank]])

----------------------------------------------------------------------------
(* EventsManager: records and stores *)

EventRecord(event) ==
    [id |-> event.id, title |-> event.title, volume |-> event.volume]

\* faulty variant: the edge is appended with a plain INSERT
_store_event_tags_basic_append(T, ET, event_id, tagDocs) ==
    LET f[i \in 0..Len(tagDocs)] ==
            IF i = 0 THEN [tags |-> T, event_tags |-> ET]
            ELSE [tags |-> insert_or_ignore(f[i - 1].tags, "tags",
                               [id |-> tagDocs[i].id,
                                label |-> tagDocs[i].label,
                                force_hide |-> Null,
                                is_carousel |-> tagDocs[i].isCarousel,
                                fetched_at |-> Null]),
                  event_tags |-> f[i - 1].event_tags (+) SetToBag(
                               {[event_id |-> event_id, tag_id |-> tagDocs[i].id]})]
    IN  f[Len(tagDocs)]

\* faulty variant: the tag row of a nested tag is written with
\* INSERT OR REPLACE
_store_event_tags_basic_replaces(T, ET, event_id, tagDocs) ==
    LET f[i \in 0..Len(tagDocs)] ==
            IF i = 0 THEN [tags |-> T, event_tags |-> ET]
            ELSE [tags |-> insert_or_replace(f[i - 1].tags, "tags",
                               [id |-> tagDocs[i].id,
                                label |-> tagDocs[i].label,
                                force_hide |-> Null,
                                is_carousel |-> tagDocs[i].isCarousel,
                                fetched_at |-> Null]),
                  event_tags |-> insert_or_ignore(f[i - 1].event_tags,
                               "event_tags",
                               [event_id |-> event_id, tag_id |-> tagDocs[i].id])]
    IN  f[Len(tagDocs)]

\* the tag row and the edge of each nested tag, written one by one
_store_event_tags_basic(T, ET, event_id, tagDocs) ==
    LET f[i \in 0..Len(tagDocs)] ==
            IF i = 0 THEN [tags |-> T, event_tags |-> ET]
            ELSE [tags |-> insert_or_ignore(f[i - 1].tags, "tags",
                               [id |-> tagDocs[i].id,
                                label |-> tagDocs[i].label,
                                force_hide |-> Null,
                                is_carousel |-> tagDocs[i].isCarousel,
                                fetched_at |-> Null]),
                  event_tags |-> insert_or_ignore(f[i - 1].event_tags,
                               "event_tags",
                               [event_id |-> event_id, tag_id |-> tagDocs[i].id])]
    IN  f[Len(tagDocs)]

\* _store_events, its loop: every event's nested tags and edges are written
\* while the event records are only collected
_store_events_tags(T, ET, eventDocs) ==
    LET f[i \in 0..Len(eventDocs)] ==
            IF i = 0 THEN [tags |-> T, event_tags |-> ET]
            ELSE _store_event_tags_basic(f[i - 1].tags, f[i - 1].event_tags,
                                         eventDocs[i].id, eventDocs[i].tags)
    IN  f[Len(eventDocs)]

\* _store_events, its end: the collected event records in one bulk write
_store_events_bulk(E, eventDocs) ==
    bulk_insert_or_replace(E, "events",
        [i \in 1..Len(eventDocs) |-> EventRecord(eventDocs[i])])

_store_event_detailed(E, event) ==
    insert_or_replace(E, "events", EventRecord(event))

_fetch_and_store_event_tags(T, ET, event_id, tagDocs) ==
    [tags |-> bulk_insert_or_replace(T, "tags",
                [i \in 1..Len(tagDocs) |->
                    [id |-> tagDocs[i].id,
                     label |-> tagDocs[i].label,
                     force_hide |-> tagDocs[i].forceHide,
                     is_carousel |-> tagDocs[i].isCarousel,
                     fetched_at |-> Val]]),
     event_tags |-> bulk_insert_or_replace(ET, "event_tags",
                [i \in 1..Len(tagDocs) |->
                    [event_id |-> event_id, tag_id |-> tagDocs[i].id]])]

_store_live_volume(LV, E, event_id, volume_data) ==
    [event_live_volume |-> insert_or_replace(LV, "event_live_volume",
                [event_id |-> event_id, total_volume |-> volume_data.total]),
     events |-> update_record_volume(E, event_id, volume_data.total)]

----------------------------------------------------------------------------
(* State after construction: an empty database, nothing requested yet *)

\* Config.FETCH_CLOSED_EVENTS, Config.FETCH_LIVE_VOLUME and
\* Config.MAX_EVENTS_PER_RUN, and the page size limit of fetch_all_events,
\* which daily_scan never overrides
Configs ==
    [FETCH_CLOSED_EVENTS : BOOLEAN, FETCH_LIVE_VOLUME : BOOLEAN, limit : Limits,
     MAX_EVENTS_PER_RUN : Caps]

LocInit ==
    [closed |-> FALSE, limit |-> 1, offset |-> 0, all_events |-> <<>>,
     page |-> <<>>, ids |-> <<>>, idx |-> 0, processed |-> 0, errors |-> 0,
     pageFailed |-> FALSE, requested |-> <<>>, all_tags |-> <<>>,
     active_events |-> <<>>, report |-> "none", members_before |-> {},
     returned |-> "none", stored |-> {}, active_stored |-> {},
     event_i |-> 0, tag_i |-> 0, edges_before |-> {}]

\* the values of the Tabs of TradePage
Views == {"users", "events", "markets", "series", "tags"}

\* the values the view search parameter of the URL takes: those of the
\* sidebar options, and any other string
UrlViews == Views \cup {"other"}

\* the rows of the table TradePage shows
TableRows == {"r1", "r2"}

\* useState(null) of selectedItem; a selected item is the row, and view
\* records the selectedView it was selected in
NoItem == [row |-> Null, view |-> Null]

\* the TradePage component before it is mounted
TradePageClosed ==
    [mounted |-> FALSE, searchParams |-> Null, selectedView |-> Null,
     selectedItem |-> NoItem, detailExpanded |-> FALSE]

\* the tabs of the dashboard
Tabs == {"whales", "bets", "markets"}

\* the dashboard page before the document is loaded: let currentTab =
\* 'whales', no request in flight, every table body showing "loading"
DashboardClosed ==
    [loaded |-> FALSE, currentTab |-> "whales", disabled |-> FALSE,
     refresh |-> "idle", inflight |-> [t \in Tabs |-> 0],
     refreshLoad |-> "none", refreshTab |-> "whales",
     tbody |-> [t \in Tabs |-> "loading"]]

\* the state after construction, the remote serving a catalog version of V
InitServing(V) ==
    /\ tags = EmptyBag
    /\ events = EmptyBag
    /\ event_tags = EmptyBag
    /\ tag_relationships = EmptyBag
    /\ event_live_volume = EmptyBag
    /\ ver \in V
    /\ config \in Configs
    /\ pc = "idle"
    /\ runs = 0
    /\ loc = LocInit
    /\ last = [op |-> "none", outcome |-> "ok", attempts |-> 0,
               nodelay |-> FALSE, reached |-> FALSE]
    /\ delayed = TRUE
    /\ seenPairs = {}
    /\ seenTags = {}
    /\ clean = TRUE
    /\ snap = NoSnap
    /\ resume = "none"
    /\ markets = EmptyBag
    /\ series = EmptyBag
    /\ series_events = EmptyBag
    /\ observed = NoRead
    /\ trade = TradePageClosed
    /\ dashboard = DashboardClosed

Init == InitServing(Versions)

\* requests.get(...), once: the request is issued and ends with outcome out;
\* reached records that some request of the running daily scan was answered
Request(op, out) ==
    /\ last' = [op |-> op, outcome |-> out, attempts |-> 1, nodelay |-> ~delayed,
                reached |-> (last.reached \/ ~Failed(out))]
    /\ delayed' = FALSE
    /\ clean' = (clean /\ out = "ok")

\* time.sleep(self.config.RATE_LIMIT_DELAY)
Sleep == delayed' = TRUE /\ UNCHANGED <<last, clean>>

DocIds(docs) == {docs[i].id : i \in 1..Len(docs)}

DocPairs(docs) ==
    UNION {{<<docs[i].id, docs[i].tags[j].id>> : j \in 1..Len(docs[i].tags)} :
           i \in 1..Len(docs)}

\* the id the running loop is at
CurrentEventId == loc.ids[loc.idx]

Perms(S) ==
    {q \in [1..Cardinality(S) -> S] :
        \A i, j \in 1..Cardinality(S) : i # j => q[i] # q[j]}

----------------------------------------------------------------------------
(* The orchestrator and TagsManager.daily_scan *)

\* a full sync begins: TagsManager.daily_scan first
StartRun ==
    /\ pc = "idle"
    /\ runs < MaxRuns
    /\ pc' = "tags_list"
    /\ loc' = LocInit
    /\ last' = [last EXCEPT !.reached = FALSE]
    /\ UNCHANGED <<store, ver, config, runs, delayed, seenPairs,
                   seenTags, clean, snap,
                   resume, dependents,
                   observed, frontend>>

\* fetch_all_tags: one request for the tag list, stored in bulk; a failed
\* request or a raising store is logged and the scan goes on.  all_tags is
\* extended with the answer before the store.
fetch_all_tags ==
    /\ pc = "tags_list"
    /\ \E out \in Outcomes :
        /\ Request("tags_list", out)
        /\ loc' = [loc EXCEPT !.all_tags =
                       IF Failed(out) THEN <<>>
                       ELSE [i \in 1..Len(RemoteTagList(ver)) |->
                                RemoteTagList(ver)[i].id]]
        /\ tags' = IF out = "ok"
                   THEN _store_tags(tags, RemoteTagList(ver), FALSE)
                   ELSE tags
        /\ seenTags' = IF out = "ok"
                       THEN seenTags \cup DocIds(RemoteTagList(ver))
                       ELSE seenTags
    /\ pc' = "tags_select"
    /\ UNCHANGED <<events, event_tags, tag_relationships, event_live_volume,
                   ver, config, runs, seenPairs, snap,
                   resume, dependents,
                   observed, frontend>>

\* where process_all_tags_detailed goes after the tag at loc.idx
TagsAdvance(l) ==
    IF l.idx < Len(l.ids)
    THEN [pc |-> "tag_detail", loc |-> [l EXCEPT !.idx = @ + 1]]
    ELSE [pc |-> "ev_start", loc |-> l]

\* faulty variant: the loop runs over the tags just fetched
TagIdsFetched(T, l) == l.all_tags

\* SELECT id FROM tags ORDER BY id
TagIdsToProcess(T, l) == SelectSeq(TagOrder, LAMBDA t : t \in StoredIds(T))

\* process_all_tags_detailed, its head: the ids are read from the store
process_all_tags_detailed ==
    /\ pc = "tags_select"
    /\ LET l == [loc EXCEPT !.ids = TagIdsToProcess(tags, loc),
                            !.idx = 0, !.processed = 0, !.errors = 0]
       IN  /\ pc' = TagsAdvance(l).pc
           /\ loc' = TagsAdvance(l).loc
    /\ UNCHANGED <<store, ver, config, runs, last, delayed, seenPairs,
                   seenTags, clean, snap,
                   resume, dependents,
                   observed, frontend>>

\* the loop's except branch: errors += 1, then the next tag, with no sleep
TagError(l) == TagsAdvance([l EXCEPT !.errors = @ + 1])

\* fetch_tag_by_id(tag_id); a failed request is logged and None returned
fetch_tag_by_id ==
    /\ pc = "tag_detail"
    /\ \E out \in Outcomes :
        /\ Request("tag_detail", out)
        /\ tags' = IF out = "ok"
                   THEN _store_tag_detailed(tags, TagDoc(loc.ids[loc.idx]))
                   ELSE tags
        /\ seenTags' = IF out = "ok" THEN seenTags \cup {loc.ids[loc.idx]}
                       ELSE seenTags
        /\ pc' = IF out = "dberror" THEN TagError(loc).pc ELSE "tag_rels"
        /\ loc' = IF out = "dberror" THEN TagError(loc).loc ELSE loc
    /\ UNCHANGED <<events, event_tags, tag_relationships, event_live_volume,
                   ver, config, runs, seenPairs, snap,
                   resume, dependents,
                   observed, frontend>>

\* fetch_tag_relationships(tag_id); an empty answer is not stored
fetch_tag_relationships ==
    /\ pc = "tag_rels"
    /\ LET R == RemoteRelationships(ver, loc.ids[loc.idx])
       IN  \E out \in Outcomes :
            /\ out = "dberror" => R # <<>>
            /\ Request("tag_rels", out)
            /\ tag_relationships' =
                   IF out = "ok" /\ R # <<>>
                   THEN _store_tag_relationships(tag_relationships, R)
                   ELSE tag_relationships
            /\ pc' = IF out = "dberror" THEN TagError(loc).pc ELSE "tag_related"
            /\ loc' = IF out = "dberror" THEN TagError(loc).loc ELSE loc
    /\ UNCHANGED <<tags, events, event_tags, event_live_volume, ver, config,
                   runs, seenPairs, seenTags, snap,
                   resume, dependents,
                   observed, frontend>>

\* fetch_related_tags_details(tag_id), then processed += 1
fetch_related_tags_details ==
    /\ pc = "tag_related"
    /\ LET RT == RemoteRelatedTags(ver, loc.ids[loc.idx])
       IN  \E out \in Outcomes :
            /\ out = "dberror" => RT # <<>>
            /\ Request("tag_related", out)
            /\ tags' = IF out = "ok" /\ RT # <<>>
                       THEN _store_tags(tags, RT, TRUE)
                       ELSE tags
            /\ seenTags' = IF out = "ok" THEN seenTags \cup DocIds(RT)
                           ELSE seenTags
            /\ pc' = IF out = "dberror" THEN TagError(loc).pc ELSE "tag_sleep"
            /\ loc' = IF out = "dberror" THEN TagError(loc).loc
                      ELSE [loc EXCEPT !.processed = @ + 1]
    /\ UNCHANGED <<events, event_tags, tag_relationships, event_live_volume,
                   ver, config, runs, seenPairs, snap,
                   resume, dependents,
                   observed, frontend>>

\* the rate-limit sleep that ends a tag's iteration
TagSleep ==
    /\ pc = "tag_sleep"
    /\ Sleep
    /\ pc' = TagsAdvance(loc).pc
    /\ loc' = TagsAdvance(loc).loc
    /\ UNCHANGED <<store, ver, config, runs, seenPairs, seenTags, snap,
                   resume, dependents,
                   observed, frontend>>

----------------------------------------------------------------------------
(* EventsManager.daily_scan *)

\* daily_scan calls fetch_all_events(closed=False)
events_daily_scan ==
    /\ pc = "ev_start"
    /\ loc' = [LocInit EXCEPT !.limit = config.limit]
    /\ pc' = "ev_page"
    /\ last' = [last EXCEPT !.reached = FALSE]
    /\ UNCHANGED <<store, ver, config, runs, delayed, seenPairs,
                   seenTags, clean, snap,
                   resume, dependents,
                   observed, frontend>>

\* faulty variant: daily_scan returns at once when a page request failed
AfterBulkSkipsDetail(l, cfg) ==
    IF ~l.closed /\ cfg.FETCH_CLOSED_EVENTS
    THEN [pc |-> "ev_page",
          loc |-> [l EXCEPT !.closed = TRUE, !.offset = 0,
                            !.all_events = <<>>, !.page = <<>>,
                            !.requested = <<>>,
                            !.active_events = l.all_events,
                            !.stored = {}, !.active_stored = l.stored]]
    ELSE [pc |-> IF l.pageFailed THEN "ev_done" ELSE "ev_select",
          loc |-> [l EXCEPT !.page = <<>>,
                            !.active_events =
                                IF l.closed THEN @ ELSE l.all_events,
                            !.active_stored =
                                IF l.closed THEN @ ELSE l.stored]]

\* fetch_all_events has left its page loop: daily_scan fetches the closed
\* events next if configured, then runs the detail phase
AfterBulk(l, cfg) ==
    IF ~l.closed /\ cfg.FETCH_CLOSED_EVENTS
    THEN [pc |-> "ev_page",
          loc |-> [l EXCEPT !.closed = TRUE, !.offset = 0,
                            !.all_events = <<>>, !.page = <<>>,
                            !.requested = <<>>,
                            !.active_events = l.all_events,
                            !.stored = {}, !.active_stored = l.stored]]
    ELSE [pc |-> "ev_select",
          loc |-> [l EXCEPT !.page = <<>>,
                            !.active_events =
                                IF l.closed THEN @ ELSE l.all_events,
                            !.active_stored =
                                IF l.closed THEN @ ELSE l.stored]]

\* the event at position i of the list without end: E1, E2, E1, E2, ...
RemoteEndlessEvent(v, i) == RemoteEvent(v, IF i % 2 = 1 THEN "E1" ELSE "E2")

\* the page at loc.offset of the list the remote serves
RemotePage(v, l) ==
    LET list == RemoteEventList(v, l.closed)
        to == IF l.offset + l.limit < Len(list) THEN l.offset + l.limit
              ELSE Len(list)
    IN  IF v = EndlessVersion
        THEN [i \in 1..l.limit |-> RemoteEndlessEvent(v, l.offset + i)]
        ELSE SubSeq(list, l.offset + 1, to)

\* the request of a page failed: the error is logged and the loop left
PageRequestFails(l, cfg) == AfterBulk([l EXCEPT !.pageFailed = TRUE], cfg)

\* the offsets of the page requests issued so far by this call
PageRequested(l) == [l EXCEPT !.requested = Append(@, l.offset)]

\* faulty variant: the offset is not advanced
NextOffsetStays(l) == l.offset

\* offset += limit
NextOffset(l) == l.offset + l.limit

\* fetch_all_events, one turn of its loop up to the loop of _store_events:
\* the request of the page at offset, and the nested tags and edges of the
\* page's events
fetch_all_events ==
    /\ pc = "ev_page"
    /\ loc.offset <= MaxOffset
    /\ \E out \in {"ok", "transient", "client"} :
        LET page == RemotePage(ver, loc)
            written == _store_events_tags(tags, event_tags, page)
        IN  /\ Request("ev_page", out)
            /\ IF Failed(out)
               THEN /\ pc' = PageRequestFails(PageRequested(loc), config).pc
                    /\ loc' = PageRequestFails(PageRequested(loc), config).loc
                    /\ UNCHANGED <<tags, event_tags, seenPairs, seenTags>>
               ELSE IF page = <<>>
               THEN /\ pc' = AfterBulk(PageRequested(loc), config).pc
                    /\ loc' = AfterBulk(PageRequested(loc), config).loc
                    /\ UNCHANGED <<tags, event_tags, seenPairs, seenTags>>
               ELSE /\ pc' = "ev_bulk"
                    /\ loc' = [PageRequested(loc) EXCEPT
                                 !.page = page,
                                 !.all_events = @ \o
                                     [i \in 1..Len(page) |-> page[i].id]]
                    /\ tags' = written.tags
                    /\ event_tags' = written.event_tags
                    /\ seenPairs' = seenPairs \cup DocPairs(page)
                    /\ seenTags' = seenTags \cup
                           {p[2] : p \in DocPairs(page)}
    /\ UNCHANGED <<events, tag_relationships, event_live_volume, ver, config,
                   runs, snap,
                   resume, dependents,
                   observed, frontend>>

\* the events this call of fetch_all_events has written to the events table
PageStored(l) == [l EXCEPT !.stored = @ \cup DocIds(l.page)]

\* faulty variant: the loop has no cap
CapIgnored(l, cfg) == FALSE

\* if len(all_events) >= self.config.MAX_EVENTS_PER_RUN: break
CapReached(l, cfg) == Len(l.all_events) >= cfg.MAX_EVENTS_PER_RUN

\* the end of _store_events and what follows it in the loop: the bulk write
\* of the page's events (raising leaves the loop), the cap, the next offset
store_events_bulk ==
    /\ pc = "ev_bulk"
    /\ \E raises \in BOOLEAN :
        IF raises
        THEN /\ pc' = AfterBulk(loc, config).pc
             /\ loc' = AfterBulk(loc, config).loc
             /\ clean' = FALSE
             /\ UNCHANGED events
        ELSE /\ events' = _store_events_bulk(events, loc.page)
             /\ clean' = clean
             /\ IF CapReached(loc, config)
                THEN /\ pc' = AfterBulk(PageStored(loc), config).pc
                     /\ loc' = AfterBulk(PageStored(loc), config).loc
                ELSE /\ pc' = "ev_page_sleep"
                     /\ loc' = [PageStored(loc) EXCEPT
                                  !.offset = NextOffset(loc)]
    /\ UNCHANGED <<tags, event_tags, tag_relationships, event_live_volume,
                   ver, config, runs, last, delayed, seenPairs, seenTags, snap,
                   resume, dependents,
                   observed, frontend>>

\* the rate-limit sleep of the page loop, then the short-page test
PageSleep ==
    /\ pc = "ev_page_sleep"
    /\ Sleep
    /\ IF Len(loc.page) < loc.limit
       THEN /\ pc' = AfterBulk(loc, config).pc
            /\ loc' = AfterBulk(loc, config).loc
       ELSE /\ pc' = "ev_page"
            /\ loc' = [loc EXCEPT !.page = <<>>]
    /\ UNCHANGED <<store, ver, config, runs, seenPairs, seenTags, snap,
                   resume, dependents,
                   observed, frontend>>

\* where process_all_events_detailed goes after the event at loc.idx
EventsAdvance(l) ==
    IF l.idx < Len(l.ids)
    THEN [pc |-> "ev_detail", loc |-> [l EXCEPT !.idx = @ + 1]]
    ELSE [pc |-> "ev_done", loc |-> l]

\* process_all_events_detailed, its head:
\* SELECT id, slug FROM events ORDER BY volume DESC
process_all_events_detailed ==
    /\ pc = "ev_select"
    /\ \E order \in Perms(StoredIds(events)) :
        LET l == [loc EXCEPT !.ids = order, !.idx = 0,
                             !.processed = 0, !.errors = 0]
        IN  /\ pc' = EventsAdvance(l).pc
            /\ loc' = EventsAdvance(l).loc
    /\ UNCHANGED <<store, ver, config, runs, last, delayed, seenPairs,
                   seenTags, clean, snap,
                   resume, dependents,
                   observed, frontend>>

\* faulty variant: the except branch leaves errors as it is
EventErrorUncounted(l) == EventsAdvance(l)

\* the loop's except branch: errors += 1, then the next event, with no sleep
EventError(l) == EventsAdvance([l EXCEPT !.errors = @ + 1])

\* fetch_event_by_id returned (the document, or None after a failed
\* request): processed += 1, then the sleep
EventProcessed(l) == [pc |-> "ev_sleep", loc |-> [l EXCEPT !.processed = @ + 1]]

\* faulty variant: a failed live-volume request reaches the except clause of
\* fetch_event_by_id
fetch_event_by_id_returns_propagating(out, live_out) ==
    IF Failed(out) \/ Failed(live_out) THEN "None"
    ELSE IF out = "dberror" \/ live_out = "dberror" THEN "raised"
    ELSE "document"

\* how fetch_event_by_id ends, its request having ended with out and its
\* live-volume request with live_out ("none": not issued): it returns None
\* from its except clause, it returns the event document, or a store raises
fetch_event_by_id_returns(out, live_out) ==
    IF Failed(out) THEN "None"
    ELSE IF out = "dberror" \/ live_out = "dberror" THEN "raised"
    ELSE "document"

\* fetch_event_by_id(event_id) up to its live-volume call: the event row,
\* then the event's tags and edges
fetch_event_by_id ==
    /\ pc = "ev_detail"
    /\ \E out \in Outcomes :
        LET event == RemoteEvent(ver, loc.ids[loc.idx])
            written == _fetch_and_store_event_tags(tags, event_tags,
                                                   event.id, event.tags)
            l == [loc EXCEPT !.returned =
                                 fetch_event_by_id_returns(out, "none")]
            next == IF out = "dberror" THEN EventError(l)
                    ELSE IF out = "ok" /\ config.FETCH_LIVE_VOLUME
                    THEN [pc |-> "ev_live",
                          loc |-> [loc EXCEPT !.returned = "none"]]
                    ELSE EventProcessed(l)
        IN  /\ Request("ev_detail", out)
            /\ pc' = next.pc
            /\ loc' = next.loc
            /\ IF out = "ok"
               THEN /\ events' = _store_event_detailed(events, event)
                    /\ tags' = written.tags
                    /\ event_tags' = written.event_tags
                    /\ seenPairs' = seenPairs \cup DocPairs(<<event>>)
                    /\ seenTags' = seenTags \cup DocIds(event.tags)
               ELSE UNCHANGED <<events, tags, event_tags, seenPairs, seenTags>>
    /\ UNCHANGED <<tag_relationships, event_live_volume, ver, config, runs,
                   snap,
                   resume, dependents,
                   observed, frontend>>

\* fetch_event_live_volume(event_id), the second request of fetch_event_by_id
fetch_event_live_volume ==
    /\ pc = "ev_live"
    /\ LET data == RemoteLiveVolume(ver, loc.ids[loc.idx])
       IN  \E out \in Outcomes :
            LET written == _store_live_volume(event_live_volume, events,
                                              loc.ids[loc.idx], data[1])
                l == [loc EXCEPT !.returned =
                                     fetch_event_by_id_returns("ok", out)]
                next == IF out = "dberror" THEN EventError(l)
                        ELSE EventProcessed(l)
            IN  /\ out = "dberror" => data # <<>>
                /\ Request("ev_live", out)
                /\ pc' = next.pc
                /\ loc' = next.loc
                /\ IF out = "ok" /\ data # <<>>
                   THEN /\ event_live_volume' = written.event_live_volume
                        /\ events' = written.events
                   ELSE UNCHANGED <<event_live_volume, events>>
    /\ UNCHANGED <<tags, event_tags, tag_relationships, ver, config, runs,
                   seenPairs, seenTags, snap,
                   resume, dependents,
                   observed, frontend>>

\* the rate-limit sleep that ends an event's iteration
EventSleep ==
    /\ pc = "ev_sleep"
    /\ Sleep
    /\ pc' = EventsAdvance(loc).pc
    /\ loc' = EventsAdvance(loc).loc
    /\ UNCHANGED <<store, ver, config, runs, seenPairs, seenTags, snap,
                   resume, dependents,
                   observed, frontend>>

\* what TagsManager.daily_scan returns to its caller: len(all_tags)
tags_daily_scan_returns(l) == [fetched |-> Len(l.all_tags)]

\* what EventsManager.daily_scan returns to its caller: len(active_events)
events_daily_scan_returns(l) == [fetched |-> Len(l.active_events)]

\* EventsManager.daily_scan returns: the full sync is complete
EndRun ==
    /\ pc = "ev_done"
    /\ pc' = "idle"
    /\ runs' = runs + 1
    /\ loc' = LocInit
    /\ snap' = IF runs = 0 /\ clean THEN store ELSE snap
    /\ UNCHANGED <<store, ver, config, last, delayed, seenPairs, seenTags,
                   clean,
                   resume, dependents,
                   observed, frontend>>

\* the remote catalog changes between two daily scans
RemoteEdit ==
    /\ runs < MaxRuns
    /\ pc \in {"idle", "ev_start"}
    /\ ver' \in Versions \ {ver}
    /\ clean' = FALSE
    /\ UNCHANGED <<store, config, pc, runs, loc, last, delayed, seenPairs,
                   seenTags, snap,
                   resume, dependents,
                   observed, frontend>>

Next ==
    \/ StartRun
    \/ fetch_all_tags
    \/ process_all_tags_detailed
    \/ fetch_tag_by_id
    \/ fetch_tag_relationships
    \/ fetch_related_tags_details
    \/ TagSleep
    \/ events_daily_scan
    \/ fetch_all_events
    \/ store_events_bulk
    \/ PageSleep
    \/ process_all_events_detailed
    \/ fetch_event_by_id
    \/ fetch_event_live_volume
    \/ EventSleep
    \/ EndRun
    \/ RemoteEdit

Spec == Init /\ [][Next]_vars

----------------------------------------------------------------------------
(* The Markets and Series managers, which run after the Events manager.     *)
(* Markets are found only in the detail documents of the stored events.     *)

\* the events table before the Markets manager runs: empty, or the rows an
\* earlier Events scan stored
StoredEventSets == {{}, {"E1"}, {"E1", "E2"}}

InitDependents ==
    /\ InitServing(Versions)
    /\ config = [FETCH_CLOSED_EVENTS |-> FALSE, FETCH_LIVE_VOLUME |-> FALSE,
                 limit |-> 2, MAX_EVENTS_PER_RUN |-> 2]

\* the database as an Events scan left it
EventsLoaded ==
    /\ pc = "idle"
    /\ runs = 0
    /\ events = EmptyBag
    /\ \E S \in StoredEventSets \ {{}} :
          events' = SetToBag({EventRecord(RemoteEvent(ver, e)) : e \in S})
    /\ pc' = "loaded"
    /\ UNCHANGED <<tags, event_tags, tag_relationships, event_live_volume, ver,
                   config, runs, loc, last, delayed, seenPairs, seenTags,
                   clean, snap, resume, dependents,
                   observed, frontend>>

\* setup.py --load-markets: the Markets manager starts
markets_daily_scan ==
    /\ pc \in {"idle", "loaded"}
    /\ runs < MaxRuns
    /\ pc' = "mk_select"
    /\ loc' = LocInit
    /\ last' = [last EXCEPT !.reached = FALSE]
    /\ UNCHANGED <<store, ver, config, runs, delayed, seenPairs, seenTags,
                   clean, snap, resume, dependents,
                   observed, frontend>>

\* faulty variant: a store without events is an empty success
markets_bulk_start_lenient(event_ids, l) ==
    IF Len(event_ids) = 0
    THEN [pc |-> "sr_list", loc |-> [l EXCEPT !.report = "ok"]]
    ELSE [pc |-> "mk_event", loc |-> [l EXCEPT !.ids = event_ids, !.idx = 1]]

\* the Markets bulk phase starts from the stored event ids; with none stored
\* the run is fatal for the manager and reported
markets_bulk_start(event_ids, l) ==
    IF Len(event_ids) = 0
    THEN [pc |-> "sr_list", loc |-> [l EXCEPT !.report = "dependency_error"]]
    ELSE [pc |-> "mk_event", loc |-> [l EXCEPT !.ids = event_ids, !.idx = 1]]

\* fetch_all_markets_from_events, its head: the stored event ids
fetch_all_markets_from_events ==
    /\ pc = "mk_select"
    /\ \E order \in Perms(StoredIds(events)) :
        /\ pc' = markets_bulk_start(order, loc).pc
        /\ loc' = markets_bulk_start(order, loc).loc
    /\ UNCHANGED <<store, ver, config, runs, last, delayed, seenPairs,
                   seenTags, clean, snap, resume, dependents,
                   observed, frontend>>

\* the flat Market rows of one event's nested markets, with their provenance
_store_markets(MK, event_id, marketDocs) ==
    bulk_insert_or_replace(MK, "markets",
        [i \in 1..Len(marketDocs) |->
            [id |-> marketDocs[i].id, question |-> marketDocs[i].question,
             event_id |-> event_id]])

\* where the Markets bulk phase goes after the event at loc.idx
MarketsAdvance(l) ==
    IF l.idx < Len(l.ids)
    THEN [pc |-> "mk_event", loc |-> [l EXCEPT !.idx = @ + 1]]
    ELSE [pc |-> "sr_list", loc |-> [l EXCEPT !.report = "ok"]]

\* _fetch_markets_for_event: the detail document of one stored event is
\* fetched and its nested markets are stored; a failure is counted
_fetch_markets_for_event ==
    /\ pc = "mk_event"
    /\ \E out \in {"ok", "transient", "client"} :
        LET l == IF out = "ok" THEN [loc EXCEPT !.processed = @ + 1]
                 ELSE [loc EXCEPT !.errors = @ + 1]
        IN  /\ Request("mk_event", out)
            /\ markets' = IF out = "ok"
                          THEN _store_markets(markets, CurrentEventId,
                                   RemoteEventMarkets(ver, CurrentEventId))
                          ELSE markets
            /\ pc' = MarketsAdvance(l).pc
            /\ loc' = MarketsAdvance(l).loc
    /\ UNCHANGED <<store, ver, config, runs, seenPairs, seenTags, snap,
                   resume, series, series_events,
                   observed, frontend>>

\* the ids of the events a series document nests
SeriesMembers(doc) == {doc.events[i] : i \in 1..Len(doc.events)}

\* the stored members of a series
StoredMembers(SE, series_id) ==
    UNION {r.event_ids : r \in {x \in Rows(SE) : x.series_id = series_id}}

\* _store_series_list: the flat Series rows
_store_series_list(SR, seriesDocs) ==
    bulk_insert_or_replace(SR, "series",
        [i \in 1..Len(seriesDocs) |->
            [id |-> seriesDocs[i].id, title |-> seriesDocs[i].title]])

\* _store_series_events: one row per series, listing its member event ids
_store_series_events(SE, seriesDocs) ==
    LET f[i \in 0..Len(seriesDocs)] ==
            IF i = 0 THEN SE
            ELSE replace_relation_set(f[i - 1], seriesDocs[i].id,
                     {[series_id |-> seriesDocs[i].id,
                       event_ids |-> SeriesMembers(seriesDocs[i])]})
    IN  f[Len(seriesDocs)]

\* batch_fetch_series: the series list is requested and stored
batch_fetch_series ==
    /\ pc = "sr_list"
    /\ \E out \in {"ok", "transient", "client"} :
        /\ Request("sr_list", out)
        /\ series' = IF out = "ok"
                     THEN _store_series_list(series, RemoteSeriesList(ver))
                     ELSE series
        /\ series_events' =
               IF out = "ok"
               THEN _store_series_events(series_events, RemoteSeriesList(ver))
               ELSE series_events
        /\ loc' = [loc EXCEPT !.members_before =
                                  StoredMembers(series_events, "S1")]
    /\ pc' = "dep_done"
    /\ UNCHANGED <<store, ver, config, runs, seenPairs, seenTags, snap,
                   resume, markets,
                   observed, frontend>>

\* the Markets and Series managers have run
EndDependents ==
    /\ pc = "dep_done"
    /\ pc' = "idle"
    /\ runs' = runs + 1
    /\ UNCHANGED <<store, ver, config, loc, last, delayed, seenPairs,
                   seenTags, clean, snap, resume, dependents,
                   observed, frontend>>

NextDependents ==
    \/ EventsLoaded
    \/ markets_daily_scan
    \/ fetch_all_markets_from_events
    \/ _fetch_markets_for_event
    \/ batch_fetch_series
    \/ EndDependents
    \/ RemoteEdit

SpecDependents == InitDependents /\ [][NextDependents]_vars

----------------------------------------------------------------------------
(* A stopped and resumed phase, against the catalog with three tags.  The   *)
(* first full sync runs to its end; the database is then emptied and the    *)
(* sync runs again, one of its phases being stopped once and run again.     *)

InitResume == InitServing({LargeVersion})

\* setup.py --delete-tags --delete-events: the tables are emptied after the
\* first full sync
Wipe ==
    /\ pc = "idle"
    /\ runs = 1
    /\ resume = "none"
    /\ snap # NoSnap
    /\ tags' = EmptyBag
    /\ events' = EmptyBag
    /\ event_tags' = EmptyBag
    /\ tag_relationships' = EmptyBag
    /\ event_live_volume' = EmptyBag
    /\ seenPairs' = {}
    /\ seenTags' = {}
    /\ resume' = "wiped"
    /\ UNCHANGED <<ver, config, pc, runs, loc, last, delayed, clean, snap,
                   dependents,
                   observed, frontend>>

\* the orchestrator stops the running phase between two ids or two pages,
\* and the phase is later run again from its start
Cancel ==
    /\ resume = "wiped"
    /\ \/ pc = "tag_detail" /\ loc.idx > 1 /\ pc' = "tags_select"
       \/ pc = "ev_page" /\ loc.offset > 0 /\ pc' = "ev_start"
       \/ pc = "ev_detail" /\ loc.idx > 1 /\ pc' = "ev_select"
    /\ resume' = "stopped"
    /\ UNCHANGED <<store, ver, config, runs, loc, last, delayed, seenPairs,
                   seenTags, clean, snap, dependents,
                   observed, frontend>>

NextResume ==
    \/ StartRun
    \/ fetch_all_tags
    \/ process_all_tags_detailed
    \/ fetch_tag_by_id
    \/ fetch_tag_relationships
    \/ fetch_related_tags_details
    \/ TagSleep
    \/ events_daily_scan
    \/ fetch_all_events
    \/ store_events_bulk
    \/ PageSleep
    \/ process_all_events_detailed
    \/ fetch_event_by_id
    \/ fetch_event_live_volume
    \/ EventSleep
    \/ EndRun
    \/ Wipe
    \/ Cancel

SpecResume == InitResume /\ [][NextResume]_vars

----------------------------------------------------------------------------
(* The Events daily scan with the writes of _store_events one by one, and a  *)
(* reader of the store running beside it.  Every call of a write primitive  *)
(* is one write: a reader sees the store between any two of them.           *)

InitReader ==
    /\ InitServing(Versions)
    /\ ~config.FETCH_CLOSED_EVENTS
    /\ ~config.FETCH_LIVE_VOLUME

\* setup.py --load-events: the Events manager runs its daily scan
load_events ==
    /\ pc = "idle"
    /\ runs < MaxRuns
    /\ pc' = "ev_start"
    /\ loc' = LocInit
    /\ UNCHANGED <<store, ver, config, runs, last, delayed, seenPairs,
                   seenTags, clean, snap, resume, dependents, observed,
                   frontend>>

\* the edges of event e stored in ET
StoredEdges(ET, e) == {r.tag_id : r \in {x \in Rows(ET) : x.event_id = e}}

\* the positions (event, nested tag) of the page from (i, j) on
TagPositions(page, i, j) ==
    {q \in UNION {{<<a, b>> : b \in 1..Len(page[a].tags)} :
                     a \in 1..Len(page)} :
        q[1] > i \/ (q[1] = i /\ q[2] >= j)}

\* the loops of _store_events and _store_event_tags_basic at position
\* (i, j) or, the page having no nested tag from there on, the bulk write
StoreTagsFrom(l, i, j, ET) ==
    LET left == TagPositions(l.page, i, j)
        q == CHOOSE c \in left :
                 \A d \in left : c[1] < d[1] \/ (c[1] = d[1] /\ c[2] <= d[2])
    IN  IF left = {}
        THEN [pc |-> "ev_bulk",
              loc |-> [l EXCEPT !.event_i = 0, !.tag_i = 0,
                                !.edges_before = {}]]
        ELSE [pc |-> "st_tag",
              loc |-> [l EXCEPT !.event_i = q[1], !.tag_i = q[2],
                                !.edges_before =
                                    IF q[1] = l.event_i THEN @
                                    ELSE StoredEdges(ET, l.page[q[1]].id)]]

\* fetch_all_events, the request of one turn of its loop
request_events_page ==
    /\ pc = "ev_page"
    /\ loc.offset <= MaxOffset
    /\ \E out \in {"ok", "transient", "client"} :
        LET page == RemotePage(ver, loc)
            l == [PageRequested(loc) EXCEPT
                     !.page = page,
                     !.all_events = @ \o [i \in 1..Len(page) |-> page[i].id]]
        IN  /\ Request("ev_page", out)
            /\ IF Failed(out)
               THEN /\ pc' = PageRequestFails(PageRequested(loc), config).pc
                    /\ loc' = PageRequestFails(PageRequested(loc), config).loc
               ELSE IF page = <<>>
               THEN /\ pc' = AfterBulk(PageRequested(loc), config).pc
                    /\ loc' = AfterBulk(PageRequested(loc), config).loc
               ELSE /\ pc' = StoreTagsFrom(l, 1, 1, event_tags).pc
                    /\ loc' = StoreTagsFrom(l, 1, 1, event_tags).loc
    /\ UNCHANGED <<store, ver, config, runs, seenPairs, seenTags, snap,
                   resume, dependents, observed, frontend>>

\* the nested tag the loop of _store_event_tags_basic is at
NestedTag(l) == l.page[l.event_i].tags[l.tag_i]

\* _store_event_tags_basic: self.insert_or_ignore('tags', tag_record)
insert_tag_record ==
    /\ pc = "st_tag"
    /\ tags' = insert_or_ignore(tags, "tags",
                    [id |-> NestedTag(loc).id,
                     label |-> NestedTag(loc).label,
                     force_hide |-> Null,
                     is_carousel |-> NestedTag(loc).isCarousel,
                     fetched_at |-> Null])
    /\ seenTags' = seenTags \cup {NestedTag(loc).id}
    /\ pc' = "st_edge"
    /\ UNCHANGED <<events, event_tags, tag_relationships, event_live_volume,
                   ver, config, runs, loc, last, delayed, seenPairs, clean,
                   snap, resume, dependents, observed, frontend>>

\* _store_event_tags_basic: self.insert_or_ignore('event_tags', relationship),
\* then the next nested tag, the next event, or the bulk write of the page
insert_relationship ==
    /\ pc = "st_edge"
    /\ LET written == insert_or_ignore(event_tags, "event_tags",
                           [event_id |-> loc.page[loc.event_i].id,
                            tag_id |-> NestedTag(loc).id])
           next == StoreTagsFrom(loc, loc.event_i, loc.tag_i + 1, written)
       IN  /\ event_tags' = written
           /\ pc' = next.pc
           /\ loc' = next.loc
    /\ seenPairs' = seenPairs \cup
                        {<<loc.page[loc.event_i].id, NestedTag(loc).id>>}
    /\ UNCHANGED <<tags, events, tag_relationships, event_live_volume, ver,
                   config, runs, last, delayed, seenTags, clean, snap,
                   resume, dependents, frontend, observed>>

\* another connection reads the edges of one event: it records what it
\* read and, when a writer is inside the loop over that event's tags, the
\* event's edges before the loop and the tags the loop is writing
read_event_tags ==
    /\ \E e \in EventIds :
          observed' =
              IF pc \in {"st_tag", "st_edge"} /\ loc.page[loc.event_i].id = e
              THEN [event_id |-> e, tag_ids |-> StoredEdges(event_tags, e),
                    during_write |-> TRUE, before |-> loc.edges_before,
                    new |-> DocIds(loc.page[loc.event_i].tags)]
              ELSE [event_id |-> e, tag_ids |-> StoredEdges(event_tags, e),
                    during_write |-> FALSE, before |-> {}, new |-> {}]
    /\ UNCHANGED <<store, ver, config, pc, runs, loc, last, delayed,
                   seenPairs, seenTags, clean, snap, resume, dependents,
                   frontend>>

NextReader ==
    \/ load_events
    \/ events_daily_scan
    \/ request_events_page
    \/ insert_tag_record
    \/ insert_relationship
    \/ store_events_bulk
    \/ PageSleep
    \/ process_all_events_detailed
    \/ fetch_event_by_id
    \/ EventSleep
    \/ EndRun
    \/ read_event_tags

SpecReader == InitReader /\ [][NextReader]_vars

----------------------------------------------------------------------------
(* TradePage (src/frontend/src/pages/TradingPage.js): the view tabs, the    *)
(* row selection and the view search parameter of the URL.                  *)

\* everything but the two frontends
backend ==
    <<store, ver, config, pc, runs, loc, last, delayed, seenPairs, seenTags,
      clean, snap, resume, dependents, observed>>

InitFrontend ==
    /\ InitServing({"v1"})
    /\ config = [FETCH_CLOSED_EVENTS |-> FALSE, FETCH_LIVE_VOLUME |-> FALSE,
                 limit |-> 2, MAX_EVENTS_PER_RUN |-> 2]

\* useEffect(..., [searchParams]): a view parameter, when there is one,
\* becomes the selectedView
useEffect_searchParams(t) ==
    IF t.searchParams # Null
    THEN [t EXCEPT !.selectedView = t.searchParams]
    ELSE t

\* the route /trade is opened, with or without a view parameter
TradePage ==
    /\ ~trade.mounted
    /\ \E p \in UrlViews \cup {Null} :
          trade' = useEffect_searchParams(
                       [mounted |-> TRUE, searchParams |-> p,
                        selectedView |-> IF p # Null THEN p ELSE "users",
                        selectedItem |-> NoItem, detailExpanded |-> FALSE])
    /\ UNCHANGED <<backend, dashboard>>

\* a tab is chosen
handleViewChange ==
    /\ trade.mounted
    /\ \E newValue \in Views :
          trade' = useEffect_searchParams(
                       [trade EXCEPT !.selectedView = newValue,
                                     !.searchParams = newValue,
                                     !.selectedItem = NoItem,
                                     !.detailExpanded = FALSE])
    /\ UNCHANGED <<backend, dashboard>>

\* a row of the table shown is selected; renderTable shows a table with a
\* selection handler for users, events, markets and in its default case
handleItemSelect ==
    /\ trade.mounted
    /\ trade.selectedView \notin {"series", "tags"}
    /\ \E item \in TableRows :
          trade' = [trade EXCEPT
                      !.selectedItem = [row |-> item,
                                        view |-> trade.selectedView],
                      !.detailExpanded = TRUE]
    /\ UNCHANGED <<backend, dashboard>>

\* MainLayout: a sidebar option navigates to /trade?view=..., or the TRADE
\* tab to /trade, while TradePage stays mounted
navigate ==
    /\ trade.mounted
    /\ \E p \in UrlViews \cup {Null} :
          trade' = useEffect_searchParams([trade EXCEPT !.searchParams = p])
    /\ UNCHANGED <<backend, dashboard>>

\* another route is opened: TradePage is unmounted
leave_trade ==
    /\ trade.mounted
    /\ trade' = TradePageClosed
    /\ UNCHANGED <<backend, dashboard>>

NextTradePage ==
    \/ TradePage
    \/ handleViewChange
    \/ handleItemSelect
    \/ navigate
    \/ leave_trade

SpecTradePage == InitFrontend /\ [][NextTradePage]_vars

----------------------------------------------------------------------------
(* The dashboard (src/static/js/app.js): tabs, the loads of their data and  *)
(* the refresh button.  A step is one task of the event loop.               *)

\* load...Data() is called: its request is in flight
start_load(d, t) == [d EXCEPT !.inflight[t] = @ + 1]

\* how a load...Data() ends: the table is rendered, or the error row is
\* shown, or (data.success false) the table body stays as it is
finish_load(d, t, result) ==
    IF result = "unchanged" THEN d ELSE [d EXCEPT !.tbody[t] = result]

\* DOMContentLoaded: the listeners are set, loadSummaryStats() and
\* loadWhalesData() are called
DOMContentLoaded ==
    /\ ~dashboard.loaded
    /\ dashboard' = start_load([dashboard EXCEPT !.loaded = TRUE], "whales")
    /\ UNCHANGED <<backend, trade>>

\* a tab button is clicked: currentTab = tabName, and its data is loaded
tab_click ==
    /\ dashboard.loaded
    /\ \E t \in Tabs :
          /\ dashboard.inflight[t] < MaxInflight
          /\ dashboard' = start_load([dashboard EXCEPT !.currentTab = t], t)
    /\ UNCHANGED <<backend, trade>>

\* the five-minute interval fires: refreshCurrentTab()
auto_refresh ==
    /\ dashboard.loaded
    /\ dashboard.inflight[dashboard.currentTab] < MaxInflight
    /\ dashboard' = start_load(dashboard, dashboard.currentTab)
    /\ UNCHANGED <<backend, trade>>

\* the request of a load...Data() not started by refreshAllData returns
load_returns ==
    /\ \E t \in Tabs, result \in {"data", "error", "unchanged"} :
          /\ dashboard.inflight[t] > 0
          /\ dashboard' = finish_load([dashboard EXCEPT !.inflight[t] = @ - 1],
                                       t, result)
    /\ UNCHANGED <<backend, trade>>

\* the refresh button is clicked (a disabled button fires no click):
\* refreshAllData disables it and posts /refresh.  A tab load an earlier
\* refresh left in flight is from now on a load like any other.
refreshAllData ==
    /\ dashboard.loaded
    /\ ~dashboard.disabled
    /\ dashboard.refresh = "idle"
    /\ LET d == IF dashboard.refreshLoad = "pending"
                 THEN start_load(dashboard, dashboard.refreshTab)
                 ELSE dashboard
       IN  /\ d.inflight[dashboard.refreshTab] <= MaxInflight
           /\ dashboard' = [d EXCEPT !.disabled = TRUE, !.refresh = "post",
                                      !.refreshLoad = "none"]
    /\ UNCHANGED <<backend, trade>>

\* finally { btn.disabled = false }
refresh_finally(d) == [d EXCEPT !.disabled = FALSE, !.refresh = "idle"]

\* await fetch(.../refresh) ends: rejected, the catch and the finally
\* clause run; else loadSummaryStats() is called and awaited
refresh_posted ==
    /\ dashboard.refresh = "post"
    /\ \E rejected \in BOOLEAN :
          dashboard' = IF rejected THEN refresh_finally(dashboard)
                       ELSE [dashboard EXCEPT !.refresh = "stats"]
    /\ UNCHANGED <<backend, trade>>

\* refreshCurrentTab(): the load of the current tab is called, and nothing
\* is returned
refreshCurrentTab(d) ==
    [d EXCEPT !.refreshLoad = "pending", !.refreshTab = d.currentTab]

\* await loadSummaryStats() ends (it catches its own errors); then await
\* refreshCurrentTab() has nothing to wait for, and the finally clause runs
refresh_stats_loaded ==
    /\ dashboard.refresh = "stats"
    /\ dashboard' = refresh_finally(refreshCurrentTab(dashboard))
    /\ UNCHANGED <<backend, trade>>

\* the request of the load that refreshCurrentTab called returns
refresh_load_returns ==
    /\ dashboard.refreshLoad = "pending"
    /\ \E result \in {"data", "error", "unchanged"} :
          dashboard' = finish_load([dashboard EXCEPT !.refreshLoad = "done"],
                                   dashboard.refreshTab, result)
    /\ UNCHANGED <<backend, trade>>

NextDashboard ==
    \/ DOMContentLoaded
    \/ tab_click
    \/ auto_refresh
    \/ load_returns
    \/ refreshAllData
    \/ refresh_posted
    \/ refresh_stats_loaded
    \/ refresh_load_returns

SpecDashboard == InitFrontend /\ [][NextDashboard]_vars

----------------------------------------------------------------------------
(* The scans against a remote that answers every page request of the       *)
(* events endpoint with a full page.  The program is single-threaded and    *)
(* every request returns or fails, so it takes its next step when it has    *)
(* one.                                                                     *)

InitPaging == InitServing({EndlessVersion})

NextPaging ==
    \/ StartRun
    \/ fetch_all_tags
    \/ process_all_tags_detailed
    \/ fetch_tag_by_id
    \/ fetch_tag_relationships
    \/ fetch_related_tags_details
    \/ TagSleep
    \/ events_daily_scan
    \/ fetch_all_events
    \/ store_events_bulk
    \/ PageSleep
    \/ process_all_events_detailed
    \/ fetch_event_by_id
    \/ fetch_event_live_volume
    \/ EventSleep
    \/ EndRun

SpecPaging == InitPaging /\ [][NextPaging]_vars /\ WF_vars(NextPaging)

----------------------------------------------------------------------------
(* Properties *)

EdgesOf(e) == {r.tag_id : r \in {x \in Rows(event_tags) : x.event_id = e}}

Pairs(table) == {<<r.event_id, r.tag_id>> : r \in Rows(table)}

\* the tag whose iteration process_all_tags_detailed is in
CurrentId == loc.ids[loc.idx]

\* C1: Idempotence.  A second full sync (Tags then Events daily scan) against
\* the same remote answers, none of them failing, leaves every table exactly
\* as the first full sync left it.
C1_Idempotence ==
    (pc = "idle" /\ runs = 2 /\ clean /\ snap # NoSnap) => store = snap

\* C2: No relation explosion.  However often and in whatever order events are
\* ingested by the bulk list phase and by fetch_event_by_id, the tags table
\* has one row per distinct tag id seen, and event_tags holds exactly the
\* distinct (event, tag) pairs seen, each once.
C2_NoRelationExplosion ==
    /\ \A r \in Rows(tags) : tags[r] = 1
    /\ \A r1, r2 \in Rows(tags) : r1.id = r2.id => r1 = r2
    /\ StoredIds(tags) = seenTags
    /\ \A r \in Rows(event_tags) : event_tags[r] = 1
    /\ Pairs(event_tags) = seenPairs

\* the second full sync has again ingested both events, each carrying the
\* same two tags, by the bulk phase and by fetch_event_by_id: two tag rows,
\* four edges
C2_Witness ==
    /\ runs = 1 /\ clean /\ ver = "v1"
    /\ pc = "ev_sleep" /\ loc.idx = 2 /\ loc.processed = 2
    /\ seenPairs = EventIds \X TagIds
    /\ BagCardinality(event_tags) = 4
    /\ BagCardinality(tags) = 2

\* C3: Wholesale replacement.  Once an event has been reprocessed with tag
\* list L (by a stored list page or by fetch_event_by_id), the event's stored
\* edges are exactly the tags of L.
C3_WholesaleReplacement ==
    /\ (pc \in {"ev_live", "ev_sleep"} /\ last.op = "ev_detail" /\ last.outcome = "ok")
          => EdgesOf(CurrentId) = DocIds(RemoteEvent(ver, CurrentId).tags)
    /\ pc = "ev_bulk"
          => \A i \in 1..Len(loc.page) :
                EdgesOf(loc.page[i].id) = DocIds(loc.page[i].tags)

C5_ReplaceSetPerTag ==
    (pc = "tag_related" /\ last.op = "tag_rels" /\ last.outcome = "ok")
       => LET R == RemoteRelationships(ver, CurrentId)
          IN  {<<r.related_tag_id, r.rank>> :
                  r \in {x \in Rows(tag_relationships) : x.tag_id = CurrentId}}
              = {<<R[i].relatedTagID, R[i].rank>> : i \in 1..Len(R)}

\* C6: Referential ordering.  Rows are never deleted, so an edge written only
\* when both of its flat rows exist means: in every state, every event_tags
\* row has its events row and its tags row.
C6_ReferentialOrdering ==
    \A r \in Rows(event_tags) :
        r.event_id \in StoredIds(events) /\ r.tag_id \in StoredIds(tags)

\* C7: Per-id failure isolation.  A step in which the detail request of the
\* current id fails counts the id as an error, not as processed, and the loop
\* goes on with the next id.
C7_FailureCounted ==
    [][(pc \in {"ev_detail", "tag_detail"} /\ Failed(last'.outcome))
          => /\ loc'.errors = loc.errors + 1
             /\ loc'.processed = loc.processed
             /\ pc' \in {"ev_detail", "tag_detail", "ev_done", "ev_start"}]_vars

\* C8: A failed page request in the Events bulk phase ends that call of
\* fetch_all_events without touching the store (no later page of the call is
\* requested: the closed-events call or the detail phase follows); the bulk
\* phase is only ever left into the detail phase, which reads every stored
\* event id; and no step removes an events row.
C8_BulkFailureAborts ==
    [][/\ (pc = "ev_page" /\ Failed(last'.outcome))
            => /\ store' = store
               /\ \/ pc' = "ev_select"
                  \/ pc' = "ev_page" /\ ~loc.closed /\ loc'.closed
                       /\ loc'.offset = 0
       /\ (pc \in {"ev_page", "ev_bulk", "ev_page_sleep"})
            => pc' \in {"ev_page", "ev_bulk", "ev_page_sleep", "ev_select"}
       /\ (pc = "ev_select" /\ pc' # pc)
            => {loc'.ids[i] : i \in 1..Len(loc'.ids)} = StoredIds(events)
       /\ StoredIds(events) \subseteq StoredIds(events')]_vars

\* the first page of the first sync stored E1, the request of the second
\* page failed, and the detail phase is now at E1
C8_Witness ==
    /\ pc = "ev_detail"
    /\ runs = 0
    /\ loc.pageFailed
    /\ ~config.FETCH_CLOSED_EVENTS
    /\ loc.ids = <<"E1">>

\* C9: Retry policy.  A request reported as failed after a transient failure
\* has been attempted more than once; one that failed with a 4xx has been
\* attempted once.
C9_RetryPolicy ==
    /\ last.outcome = "transient" => last.attempts > 1
    /\ last.outcome = "client" => last.attempts = 1

\* C10: Rate limiting.  No request is issued unless a rate-limit sleep has
\* elapsed since the request before it.
C10_RateLimited == ~last.nodelay

\* C11: Pagination order and stop rule.  In one call of fetch_all_events the
\* offsets requested are 0, limit, 2*limit, ... in this order; when a page is
\* about to be requested every event of the earlier pages is stored; and
\* every earlier page of the call was full (limit items), so no page is
\* requested after an empty or short one.
C11_PaginationOrder ==
    /\ \A i \in 1..Len(loc.requested) : loc.requested[i] = (i - 1) * loc.limit
    /\ pc = "ev_page"
          => /\ loc.offset = Len(loc.requested) * loc.limit
             /\ Len(loc.all_events) = loc.offset
             /\ \A i \in 1..Len(loc.all_events) :
                    loc.all_events[i] \in StoredIds(events)

\* page size 1: the page at offset 0 was full and stored, the page at offset
\* 1 came back empty, and the call ended without a third request
C11_Witness ==
    /\ pc = "ev_select"
    /\ runs = 0 /\ clean
    /\ loc.limit = 1
    /\ loc.requested = <<0, 1>>
    /\ loc.all_events = <<"E1">>
    /\ StoredIds(events) = {"E1"}

\* C12: Absolute cap.  In one call of fetch_all_events the number of events
\* fetched and stored never exceeds MAX_EVENTS_PER_RUN, whatever the page
\* size and the cap.
C12_AbsoluteCap ==
    Len(loc.all_events) <= config.MAX_EVENTS_PER_RUN

\* C14: each manager's daily_scan returns a summary holding the counts of
\* processed and errored ids of its detail loop (a scan never raises: every
\* failing request or write leads on to the return).
C14_SummaryReturned ==
    /\ pc = "ev_start"
          => /\ {"processed", "errors"} \subseteq DOMAIN tags_daily_scan_returns(loc)
             /\ tags_daily_scan_returns(loc).processed = loc.processed
             /\ tags_daily_scan_returns(loc).errors = loc.errors
    /\ pc = "ev_done"
          => /\ {"processed", "errors"} \subseteq DOMAIN events_daily_scan_returns(loc)
             /\ events_daily_scan_returns(loc).processed = loc.processed
             /\ events_daily_scan_returns(loc).errors = loc.errors

\* C15: a daily scan in which every remote request failed returns something
\* else than a scan that reached the API and found nothing.
C15_HardFailureReported ==
    /\ (pc = "ev_start" /\ ~last.reached)
          => tags_daily_scan_returns(loc) # tags_daily_scan_returns(LocInit)
    /\ (pc = "ev_done" /\ ~last.reached)
          => events_daily_scan_returns(loc) # events_daily_scan_returns(LocInit)

\* C18: Field non-downgrade.  Once an events row holds a non-null volume, no
\* later write of that event leaves the row without one.
C18_FieldNonDowngrade ==
    [][\A r \in Rows(events) :
          r.volume # Null
             => \A q \in Rows(events') : q.id = r.id => q.volume # Null]_vars

\* C20: the Event-Tag relation is keyed by the tag: event_tags holds at most
\* one row per tag, which lists the events carrying the tag.
C20_TagKeyedEventTags ==
    \A r1, r2 \in Rows(event_tags) : r1.tag_id = r2.tag_id => r1 = r2

\* no table holds a row twice or two rows with one primary key, and every
\* event_tags row has its events row and its tags row
StoreValid ==
    /\ \A r \in Rows(tags) : tags[r] = 1
    /\ \A r1, r2 \in Rows(tags) : r1.id = r2.id => r1 = r2
    /\ \A r \in Rows(events) : events[r] = 1
    /\ \A r1, r2 \in Rows(events) : r1.id = r2.id => r1 = r2
    /\ \A r \in Rows(event_tags) : event_tags[r] = 1
    /\ \A r \in Rows(tag_relationships) : tag_relationships[r] = 1
    /\ \A r1, r2 \in Rows(tag_relationships) :
          (r1.tag_id = r2.tag_id /\ r1.related_tag_id = r2.related_tag_id)
             => r1 = r2
    /\ \A r \in Rows(event_tags) :
          r.event_id \in StoredIds(events) /\ r.tag_id \in StoredIds(tags)

\* C13: after fetch_all_tags succeeds, every tag of the remote catalog is
\* stored, also when the catalog holds more tags than one answer carries.
C13_TagsListExhausted ==
    (pc = "tags_select" /\ last.op = "tags_list" /\ last.outcome = "ok")
       => DocIds(RemoteTagCatalog(ver)) \subseteq StoredIds(tags)

\* C16: Cancellation safety.  When a phase is stopped between two ids or two
\* pages the store is valid; and when the stopped phase has been run again
\* and the sync has come to its end, the remote data being the same and no
\* request failing, the store is the one an uninterrupted sync leaves.
C16_CancellationSafety ==
    [][/\ (resume = "wiped" /\ resume' = "stopped") => StoreValid
       /\ (pc' = "idle" /\ runs' = 2 /\ resume' = "stopped" /\ clean')
             => store' = snap']_vars

\* C17: Dependency ordering.  A Markets sync started against a store with no
\* events writes no markets row and no row of any other table, and ends
\* reported as a dependency error, the run going on to its end.
C17_MarketsNeedEvents ==
    [][(pc = "mk_select" /\ StoredIds(events) = {})
          => /\ markets' = markets
             /\ store' = store
             /\ series' = series /\ series_events' = series_events
             /\ loc'.report = "dependency_error"
             /\ pc' = "sr_list"]_vars

\* a Markets sync has run against the empty store and ended reported
C17_Witness ==
    /\ pc = "sr_list"
    /\ runs = 0
    /\ events = EmptyBag
    /\ markets = EmptyBag
    /\ loc.report = "dependency_error"

\* C19: Stale-edge removal for Series.  After a Series sync that observed a
\* series with member events M, the stored membership of that series is
\* exactly M.
C19_SeriesStaleEdges ==
    (pc = "dep_done" /\ last.op = "sr_list" /\ last.outcome = "ok")
       => \A i \in 1..Len(RemoteSeriesList(ver)) :
             StoredMembers(series_events, RemoteSeriesList(ver)[i].id)
                = SeriesMembers(RemoteSeriesList(ver)[i])

\* S1 was stored with members {E1, E2}; the later sync observed it with E1
\* only and the stored membership is now {E1}
C19_Witness ==
    /\ pc = "dep_done" /\ last.op = "sr_list" /\ last.outcome = "ok"
    /\ loc.members_before = {"E1", "E2"}
    /\ StoredMembers(series_events, "S1") = {"E1"}

\* C22: Write-once tags from event list payloads.  A step of the Events bulk
\* list phase leaves every stored tags row as it is, in every field, and a
\* row it adds carries a tag id that was not stored.
C22_WriteOnceTags ==
    [][pc = "ev_page"
          => /\ \A r \in Rows(tags) : r \in Rows(tags') /\ tags'[r] = tags[r]
             /\ \A q \in Rows(tags') \ Rows(tags) :
                    q.id \notin StoredIds(tags)]_vars

\* a list page nesting T1 and T2 has been stored while T1 was stored with
\* its detail fields and T2 was not stored: the row of T1 is as it was and
\* T2 has its first row
C22_Witness ==
    /\ pc = "ev_bulk" /\ last.op = "ev_page" /\ last.outcome = "ok"
    /\ \E i \in 1..Len(loc.page) : DocIds(loc.page[i].tags) = {"T1", "T2"}
    /\ _prepare_tag_record(TagDoc("T1"), TRUE) \in Rows(tags)
    /\ \E r \in Rows(tags) : r.id = "T2" /\ r.fetched_at = Null

\* C23: fetch_event_by_id returns None exactly when its detail request fails,
\* and then no table is modified.  When the request succeeds the event row,
\* the event's tags and its edges are written before the live-volume request,
\* which is issued only with FETCH_LIVE_VOLUME, and the document is returned,
\* also when the live-volume request fails.
C23_FetchEventById ==
    [][/\ (pc = "ev_detail" /\ Failed(last'.outcome))
            => loc'.returned = "None" /\ store' = store
       /\ (pc \in {"ev_detail", "ev_live"} /\ loc'.returned = "None")
            => pc = "ev_detail" /\ Failed(last'.outcome)
       /\ (pc = "ev_detail" /\ last'.outcome = "ok")
            => /\ EventRecord(RemoteEvent(ver, CurrentEventId)) \in Rows(events')
               /\ DocIds(RemoteEvent(ver, CurrentEventId).tags)
                      \subseteq StoredIds(tags')
               /\ DocPairs(<<RemoteEvent(ver, CurrentEventId)>>)
                      \subseteq Pairs(event_tags')
               /\ event_live_volume' = event_live_volume
               /\ (pc' = "ev_live") = config.FETCH_LIVE_VOLUME
               /\ pc' # "ev_live" => loc'.returned = "document"
       /\ (pc = "ev_live" /\ last'.outcome # "dberror")
            => loc'.returned = "document"]_vars

\* the detail request of E1 succeeded, its row and edges were written, and
\* the live-volume request then failed: the document was returned
C23_Witness ==
    /\ pc = "ev_sleep"
    /\ last.op = "ev_live" /\ Failed(last.outcome)
    /\ loc.returned = "document"
    /\ CurrentEventId = "E1"
    /\ EventRecord(RemoteEvent(ver, "E1")) \in Rows(events)
    /\ event_live_volume = EmptyBag

\* C24: the count EventsManager.daily_scan returns (the length of the list
\* fetch_all_events returned for the active events) is the number of distinct
\* events that call wrote to the events table.
C24_CountIsWritten ==
    pc = "ev_done"
       => events_daily_scan_returns(loc).fetched
             = Cardinality(loc.active_stored)

\* C27: Tag enrichment is not downgraded.  A bulk tag list store leaves the
\* detail-phase fields of a stored tag row at their stored values.
C27_TagEnrichmentKept ==
    [][pc = "tags_list"
          => \A r \in Rows(tags) :
                r.force_hide # Null
                   => \A q \in Rows(tags') :
                         q.id = r.id => /\ q.force_hide = r.force_hide
                                        /\ q.is_carousel = r.is_carousel]_vars

\* C28: Counter accounting in the detail loops.  Inside an iteration the ids
\* before it have each been counted once, as processed or as an error; after
\* its count so has the current id; and when process_all_tags_detailed or
\* process_all_events_detailed has finished, processed + errors is the number
\* of ids read from the store at the start of the loop.
C28_CounterAccounting ==
    /\ pc \in {"tag_detail", "tag_rels", "tag_related", "ev_detail", "ev_live"}
          => loc.processed + loc.errors = loc.idx - 1
    /\ pc \in {"tag_sleep", "ev_sleep"}
          => loc.processed + loc.errors = loc.idx
    /\ pc \in {"ev_start", "ev_done"}
          => /\ loc.processed + loc.errors = Len(loc.ids)
             /\ loc.idx = Len(loc.ids)

\* the events loop over two stored ids has finished with one id counted as
\* processed and the other, whose store raised, as an error
C28_Witness ==
    /\ pc = "ev_done"
    /\ Len(loc.ids) = 2
    /\ loc.processed = 1
    /\ loc.errors = 1

\* C25: Phase ordering inside a daily scan.  When a manager issues a bulk
\* list request its latest request was no detail or relationship request of
\* its own, and no fetched page awaits its store once the detail phase runs;
\* the ids of a detail phase are those stored when it starts and stay the
\* same to its end; and a detail or relationship request is only ever about
\* to be issued for an id that is stored.
C25_PhaseOrdering ==
    [][/\ pc = "tags_list"
            => last.op \notin {"tag_detail", "tag_rels", "tag_related"}
       /\ pc = "ev_page" => last.op \notin {"ev_detail", "ev_live"}
       /\ pc \in {"ev_select", "ev_detail", "ev_live", "ev_sleep"}
            => loc.page = <<>>
       /\ (pc = "tags_select" /\ pc' # pc)
            => {loc'.ids[i] : i \in 1..Len(loc'.ids)} = StoredIds(tags)
       /\ (pc = "ev_select" /\ pc' # pc)
            => {loc'.ids[i] : i \in 1..Len(loc'.ids)} = StoredIds(events)
       /\ (pc \in {"tag_detail", "tag_rels", "tag_related", "tag_sleep",
                    "ev_detail", "ev_live", "ev_sleep"})
            => loc'.ids = loc.ids
       /\ pc \in {"tag_detail", "tag_rels", "tag_related"}
            => CurrentId \in StoredIds(tags)
       /\ pc \in {"ev_detail", "ev_live"}
            => CurrentEventId \in StoredIds(events)]_vars

\* in a second sync the relationships of T2 are about to be fetched: T2 was
\* stored when the detail phase started, and the tag list request of this
\* sync came before every detail request of it
C25_Witness ==
    /\ pc = "tag_rels"
    /\ runs = 1
    /\ CurrentId = "T2"
    /\ loc.ids = <<"T1", "T2">>
    /\ last.op = "tag_detail"

\* C26: fetch_all_events terminates.  Every call of fetch_all_events that
\* has a page to request comes to its end (the detail phase follows), also
\* against a remote that answers every request with a full page.
C26_FetchAllEventsTerminates == (pc = "ev_page") ~> (pc = "ev_select")

\* the remote answered two requests with a full page of one event each, and
\* the call ended because the count had reached MAX_EVENTS_PER_RUN
C26_Witness ==
    /\ pc = "ev_select"
    /\ ver = EndlessVersion
    /\ ~config.FETCH_CLOSED_EVENTS
    /\ loc.limit = 1
    /\ config.MAX_EVENTS_PER_RUN = 2
    /\ loc.requested = <<0, 1>>
    /\ loc.active_events = <<"E1", "E2">>
    /\ last.outcome = "ok"

\* C21: Atomic relation replacement.  A reader that reads the edges of an
\* event while a writer is storing that event's tag edges reads either the
\* edges the event had before or a set holding all the edges being written,
\* never only a part of them.
C21_AtomicReplacement ==
    observed.during_write
       => \/ observed.tag_ids = observed.before
          \/ observed.new \subseteq observed.tag_ids

\* C29: TradePage selection consistency.  A selected item was selected in
\* the view now shown (a selection does not survive a change of view), and
\* the detail panel is expanded only while an item is selected.
C29_SelectionConsistency ==
    /\ trade.selectedItem # NoItem
          => trade.selectedItem.view = trade.selectedView
    /\ trade.detailExpanded => trade.selectedItem # NoItem

\* C30: Dashboard refresh.  The refresh button is disabled while
\* refreshAllData awaits the refresh post and the summary statistics and
\* until the reload of the current tab's data it started has completed, and
\* it is enabled again once refreshAllData has ended.
C30_RefreshDisablesButton ==
    /\ dashboard.refresh \in {"post", "stats"} => dashboard.disabled
    /\ dashboard.refreshLoad = "pending" => dashboard.disabled
    /\ (dashboard.refresh = "idle" /\ dashboard.refreshLoad # "pending")
          => ~dashboard.disabled

====
